---- MODULE Spec2Model ----
(***************************************************************************)
(* readmarkable: the SyncState diff engine (models/sync_state.py) and the  *)
(* reMarkable document store adapter (services/remarkable_service.py).     *)
(*                                                                         *)
(* Text (paths, titles, file contents) is a sequence of one-character      *)
(* strings, so that basename / startswith / endswith / grep / json.dumps   *)
(* are computed character by character as the code computes them.          *)
(***************************************************************************)
EXTENDS Integers, Sequences, FiniteSets, TLC

VARIABLES
    local_files,    \* SyncState.local_files : path -> FileInfo
    remote_files,   \* SyncState.remote_files: path -> FileInfo
    sync_items,     \* SyncState.sync_items  : path -> SyncItem
    progress,       \* SyncState.progress    : SyncProgress counters
    is_syncing,     \* SyncState.is_syncing
    syncOp,         \* the SyncState call that produced this state: "analyze",
                    \* "start", "mark" (with its path and success flag) or "other"
    outcome,        \* of a sync run: planned path -> "pending", "ok" or the
                    \* error message its mark_item_completed was given
    dev,            \* the files of the device's xochitl directory:
                    \*   dev.payload  : uuid -> extension of <uuid>.pdf / <uuid>.epub
                    \*   dev.metadata : uuid -> text of <uuid>.metadata
                    \*   dev.content  : uuid -> text of <uuid>.content
    used,           \* the UUIDs uuid4() has returned so far
    network,        \* the global network service: "uninitialized", "connected",
                    \* or "raising" (its calls raise an exception)
    call,           \* the last ReMarkableService call: its arguments and what it returned
    prior,          \* after list_all_documents: the UUID the call before it deleted
                    \* and whether that document was listed before the delete;
                    \* NoPrior when that call was not a successful delete
    ssh_client,     \* NetworkService.ssh_client: "None", "new" (an SSHClient that
                    \* is not connected), "active" or "inactive" (its transport)
    sftp_client,    \* NetworkService.sftp_client is not None
    connection_status,  \* NetworkService.connection_status
    _connection_lock,   \* NetworkService._connection_lock (a threading.Lock):
                        \* the thread that holds it, NoThread when it is free
    hostname,       \* hostname and password were given (set_connection_details)
    caller,         \* per thread that uses the NetworkService: where it is in
                    \* connect() / disconnect() and what connect() returned
    worker          \* per upload worker: where it is in add_with_metadata_if_new
                    \* and what that returned

syncVars == <<local_files, remote_files, sync_items, progress, is_syncing, syncOp,
             outcome>>

devVars == <<dev, used, network, call, prior>>

netVars == <<ssh_client, sftp_client, connection_status, _connection_lock, hostname,
             caller>>

vars == <<local_files, remote_files, sync_items, progress, is_syncing, syncOp,
          outcome, dev, used, network, call, prior, ssh_client, sftp_client,
          connection_status, _connection_lock, hostname, caller, worker>>

-----------------------------------------------------------------------------
(* Text helpers *)

\* str.startswith
StartsWith(s, pre) ==
    /\ Len(pre) <= Len(s)
    /\ \A i \in 1..Len(pre) : s[i] = pre[i]

\* str.endswith
EndsWith(s, suf) ==
    /\ Len(suf) <= Len(s)
    /\ \A i \in 1..Len(suf) : s[Len(s) - Len(suf) + i] = suf[i]

\* s[1:] and friends
Tail1(s) == IF Len(s) = 0 THEN <<>> ELSE SubSeq(s, 2, Len(s))

\* os.path.basename: what follows the last "/"
Basename(path) ==
    LET slashes == {i \in 1..Len(path) : path[i] = "/"}
        last == IF slashes = {} THEN 0
                ELSE CHOOSE i \in slashes : \A j \in slashes : j <= i
    IN SubSeq(path, last + 1, Len(path))

-----------------------------------------------------------------------------
(* FileStatus and SyncOperation values *)

UNKNOWN == "unknown"
UP_TO_DATE == "up_to_date"
MODIFIED_LOCAL == "modified_local"
MODIFIED_REMOTE == "modified_remote"
NEW_LOCAL == "new_local"
NEW_REMOTE == "new_remote"
DELETED_LOCAL == "deleted_local"
DELETED_REMOTE == "deleted_remote"
CONFLICT == "conflict"
ERROR == "error"

UPLOAD == "upload"
DOWNLOAD == "download"
DELETE_LOCAL == "delete_local"
DELETE_REMOTE == "delete_remote"
CONVERT_PDF == "convert_pdf"
SKIP == "skip"

\* Python's None for an Optional[FileInfo]
NoInfo == [none |-> TRUE]

\* Python's None for an Optional[str] error message
NoMessage == "<None>"

-----------------------------------------------------------------------------
(* The inputs of the model: paths, file facts, listings *)

GitConfig == <<".", "g", "i", "t", "/", "c", "o", "n", "f", "i", "g">>
NotesMd   == <<"n", "o", "t", "e", "s", ".", "m", "d">>
CachePyc  == <<"x", ".", "p", "y", "c">>

FsPaths == {GitConfig, NotesMd, CachePyc}

RemotePaths == {NotesMd, CachePyc}

\* FileInfo(path, size, modified_time, checksum); an empty checksum is what
\* calculate_checksum records when reading the file failed, and what
\* update_remote_files records when the listing has no checksum.
Info(sz, mt, cs) == [size |-> sz, modified_time |-> mt, checksum |-> cs]

LocalInfos(p) ==
    IF p = NotesMd THEN {Info(1, 3, "h1"), Info(2, 1, "")}
    ELSE {Info(1, 2, "h1")}

RemoteInfos(p) ==
    IF p = NotesMd THEN {Info(2, 2, "h1"), Info(1, 1, "h2"), Info(2, 1, "")}
    ELSE {Info(2, 1, "h1")}

\* A directory tree: some of the paths, each with its facts.
LocalTrees ==
    {t \in UNION {[S -> UNION {LocalInfos(p) : p \in S}] : S \in SUBSET FsPaths} :
        \A p \in DOMAIN t : t[p] \in LocalInfos(p)}

\* A remote listing: some of the remote paths, each with its facts.
RemoteListings ==
    {t \in UNION {[S -> UNION {RemoteInfos(p) : p \in S}] : S \in SUBSET RemotePaths} :
        \A p \in DOMAIN t : t[p] \in RemoteInfos(p)}

ErrorMessages == {NoMessage, "transfer failed"}

\* mark_item_completed stops being called once this many items were processed
MaxProcessed == 2

-----------------------------------------------------------------------------
(* SyncState *)

ignore_patterns ==
    { <<".", "*">>,
      <<"_", "_", "p", "y", "c", "a", "c", "h", "e", "_", "_">>,
      <<"*", ".", "p", "y", "c">>,
      <<".", "g", "i", "t">> }

PatternMatches(pattern, file_name) ==
    IF StartsWith(pattern, <<"*">>) THEN EndsWith(file_name, Tail1(pattern))
    ELSE IF StartsWith(pattern, <<".">>) THEN StartsWith(file_name, pattern)
    ELSE pattern = file_name

should_ignore_file(file_path) ==
    LET file_name == Basename(file_path)
    IN \E pattern \in ignore_patterns : PatternMatches(pattern, file_name)

\* dict.get(key): the value or None
Get(d, k) == IF k \in DOMAIN d THEN d[k] ELSE NoInfo

\* the files of a tree that scan_local_directory / update_remote_files keep
KeepFiles(tree) ==
    [p \in {q \in DOMAIN tree : ~should_ignore_file(q)} |-> tree[p]]

needs_sync(item) == item.status \notin {UP_TO_DATE, ERROR}

\* the timestamps compared before the checksums
determine_by_time_first(local_info, remote_info) ==
    IF local_info # NoInfo /\ remote_info # NoInfo THEN
        IF local_info.modified_time > remote_info.modified_time
             THEN <<MODIFIED_LOCAL, UPLOAD>>
        ELSE IF remote_info.modified_time > local_info.modified_time
             THEN <<MODIFIED_REMOTE, DOWNLOAD>>
        ELSE IF local_info.checksum = remote_info.checksum THEN <<UP_TO_DATE, SKIP>>
        ELSE <<CONFLICT, SKIP>>
    ELSE IF local_info # NoInfo /\ remote_info = NoInfo THEN <<NEW_LOCAL, UPLOAD>>
    ELSE IF remote_info # NoInfo /\ local_info = NoInfo THEN <<NEW_REMOTE, DOWNLOAD>>
    ELSE <<UNKNOWN, SKIP>>

_determine_sync_action(local_info, remote_info) ==
    IF local_info # NoInfo /\ remote_info # NoInfo THEN
        IF local_info.checksum = remote_info.checksum THEN <<UP_TO_DATE, SKIP>>
        ELSE IF local_info.modified_time > remote_info.modified_time
             THEN <<MODIFIED_LOCAL, UPLOAD>>
        ELSE IF remote_info.modified_time > local_info.modified_time
             THEN <<MODIFIED_REMOTE, DOWNLOAD>>
        ELSE <<CONFLICT, SKIP>>
    ELSE IF local_info # NoInfo /\ remote_info = NoInfo THEN <<NEW_LOCAL, UPLOAD>>
    ELSE IF remote_info # NoInfo /\ local_info = NoInfo THEN <<NEW_REMOTE, DOWNLOAD>>
    ELSE <<UNKNOWN, SKIP>>

\* the item left as the dataclass constructs it: status UNKNOWN, operation SKIP
NewSyncItemDefaults(local_info, remote_info) ==
    [local_info |-> local_info, remote_info |-> remote_info,
     status |-> UNKNOWN, operation |-> SKIP, error_message |-> NoMessage]

\* SyncItem(local_info, remote_info) with status and operation set
NewSyncItem(local_info, remote_info) ==
    LET action == _determine_sync_action(local_info, remote_info)
    IN [local_info |-> local_info, remote_info |-> remote_info,
        status |-> action[1], operation |-> action[2],
        error_message |-> NoMessage]

\* the remote size taken first
ItemSizeRemoteFirst(item) ==
    IF item.remote_info # NoInfo THEN item.remote_info.size
    ELSE IF item.local_info # NoInfo THEN item.local_info.size
    ELSE 0

\* the size an item counts for: local when there is a local record
ItemSize(item) ==
    IF item.local_info # NoInfo THEN item.local_info.size
    ELSE IF item.remote_info # NoInfo THEN item.remote_info.size
    ELSE 0

RECURSIVE SumSizes(_, _)
SumSizes(items, paths) ==
    IF paths = {} THEN 0
    ELSE LET p == CHOOSE q \in paths : TRUE
         IN ItemSize(items[p]) + SumSizes(items, paths \ {p})

\* self.sync_items.clear() forgotten: the old plan's entries stay
ClearItemsKept(items) == items

\* self.sync_items.clear()
ClearItems(items) == [p \in {} |-> NoInfo]

\* analyze_differences on a SyncState holding (items, prog, lf, rf):
\* the new sync_items and progress
analyze_differences(items, prog, lf, rf) ==
    LET cleared == ClearItems(items)
        all_paths == DOMAIN lf \cup DOMAIN rf
        new_items == [p \in DOMAIN cleared \cup all_paths |->
                        IF p \in all_paths
                        THEN NewSyncItem(Get(lf, p), Get(rf, p))
                        ELSE cleared[p]]
        counted == {p \in DOMAIN new_items : needs_sync(new_items[p])}
    IN [items |-> new_items,
        progress |-> [prog EXCEPT
                        !.total_items = Cardinality(counted),
                        !.processed_items = 0,
                        !.bytes_total = SumSizes(new_items, counted),
                        !.bytes_processed = 0]]

EmptyItems == [p \in {} |-> NoInfo]

\* scan_local_directory: local_files after walking `tree` (a file that cannot
\* be stat'ed is skipped, which leaves what a tree without it leaves)
scan_local_directory(tree) == KeepFiles(tree)

\* update_remote_files: remote_files after ingesting `listing`
update_remote_files(listing) == KeepFiles(listing)

\* what a scan of some tree / an ingest of some listing can leave
ScannedLocal == {scan_local_directory(tree) : tree \in LocalTrees}

IngestedRemote == {update_remote_files(listing) : listing \in RemoteListings}

NewProgress == [total_items |-> 0, processed_items |-> 0,
                bytes_total |-> 0, bytes_processed |-> 0]

Op(name, path, success) == [op |-> name, path |-> path, success |-> success]

SyncInit ==
    /\ local_files = EmptyItems
    /\ remote_files = EmptyItems
    /\ sync_items = EmptyItems
    /\ progress = NewProgress
    /\ is_syncing = FALSE
    /\ syncOp = Op("other", <<>>, TRUE)
    /\ outcome = EmptyItems

ScanLocalDirectory ==
    \E scanned \in ScannedLocal :
        /\ local_files' = scanned
        /\ syncOp' = Op("other", <<>>, TRUE)
        /\ UNCHANGED <<remote_files, sync_items, progress, is_syncing>>

UpdateRemoteFiles ==
    \E ingested \in IngestedRemote :
        /\ remote_files' = ingested
        /\ syncOp' = Op("other", <<>>, TRUE)
        /\ UNCHANGED <<local_files, sync_items, progress, is_syncing>>

AnalyzeDifferences ==
    LET r == analyze_differences(sync_items, progress, local_files, remote_files)
    IN /\ sync_items' = r.items
       /\ progress' = r.progress
       /\ syncOp' = Op("analyze", <<>>, TRUE)
       /\ UNCHANGED <<local_files, remote_files, is_syncing>>

\* a failed item counted as processed too
mark_counting_failures(items, prog, relative_path, success, error_message) ==
    IF relative_path \in DOMAIN items THEN
        [items |-> [items EXCEPT
                      ![relative_path].status = IF success THEN UP_TO_DATE ELSE ERROR,
                      ![relative_path].operation = IF success THEN SKIP ELSE @,
                      ![relative_path].error_message = IF success THEN @ ELSE error_message],
         progress |-> [prog EXCEPT
                      !.processed_items = @ + 1,
                      !.bytes_processed = @ + ItemSize(items[relative_path])]]
    ELSE [items |-> items, progress |-> prog]

\* a failed item taken out of the plan (operation skip)
mark_failure_skipped(items, prog, relative_path, success, error_message) ==
    IF relative_path \in DOMAIN items THEN
        IF success THEN
            [items |-> [items EXCEPT ![relative_path].status = UP_TO_DATE,
                                     ![relative_path].operation = SKIP],
             progress |-> [prog EXCEPT
                 !.processed_items = @ + 1,
                 !.bytes_processed = @ + ItemSize(items[relative_path])]]
        ELSE
            [items |-> [items EXCEPT ![relative_path].status = ERROR,
                                     ![relative_path].operation = SKIP,
                                     ![relative_path].error_message = error_message],
             progress |-> prog]
    ELSE [items |-> items, progress |-> prog]

\* no test that the path is in sync_items: an absent path is counted too
mark_unguarded(items, prog, relative_path, success, error_message) ==
    IF relative_path \in DOMAIN items THEN
        IF success THEN
            [items |-> [items EXCEPT ![relative_path].status = UP_TO_DATE,
                                     ![relative_path].operation = SKIP],
             progress |-> [prog EXCEPT
                 !.processed_items = @ + 1,
                 !.bytes_processed = @ + ItemSize(items[relative_path])]]
        ELSE
            [items |-> [items EXCEPT ![relative_path].status = ERROR,
                                     ![relative_path].error_message = error_message],
             progress |-> prog]
    ELSE [items |-> items,
          progress |-> IF success THEN [prog EXCEPT !.processed_items = @ + 1]
                       ELSE prog]

\* item.operation = SyncOperation.SKIP left out of the success branch
mark_keeping_operation(items, prog, relative_path, success, error_message) ==
    IF relative_path \in DOMAIN items THEN
        IF success THEN
            [items |-> [items EXCEPT ![relative_path].status = UP_TO_DATE],
             progress |-> [prog EXCEPT
                 !.processed_items = @ + 1,
                 !.bytes_processed = @ + ItemSize(items[relative_path])]]
        ELSE
            [items |-> [items EXCEPT ![relative_path].status = ERROR,
                                     ![relative_path].error_message = error_message],
             progress |-> prog]
    ELSE [items |-> items, progress |-> prog]

\* bytes_processed = size written for bytes_processed += size
mark_assigning_bytes(items, prog, relative_path, success, error_message) ==
    IF relative_path \in DOMAIN items THEN
        IF success THEN
            [items |-> [items EXCEPT ![relative_path].status = UP_TO_DATE,
                                     ![relative_path].operation = SKIP],
             progress |-> [prog EXCEPT
                 !.processed_items = @ + 1,
                 !.bytes_processed = ItemSize(items[relative_path])]]
        ELSE
            [items |-> [items EXCEPT ![relative_path].status = ERROR,
                                     ![relative_path].error_message = error_message],
             progress |-> prog]
    ELSE [items |-> items, progress |-> prog]

\* mark_item_completed(relative_path, success, error_message) on (items, prog)
mark_item_completed(items, prog, relative_path, success, error_message) ==
    IF relative_path \in DOMAIN items THEN
        LET item == items[relative_path]
        IN IF success THEN
             [items |-> [items EXCEPT ![relative_path].status = UP_TO_DATE,
                                      ![relative_path].operation = SKIP],
              progress |-> [prog EXCEPT
                  !.processed_items = @ + 1,
                  !.bytes_processed = @ + ItemSize(item)]]
           ELSE
             [items |-> [items EXCEPT ![relative_path].status = ERROR,
                                      ![relative_path].error_message = error_message],
              progress |-> prog]
    ELSE [items |-> items, progress |-> prog]

MarkItemCompleted ==
    \E relative_path \in FsPaths, success \in BOOLEAN, error_message \in ErrorMessages :
        /\ progress.processed_items < MaxProcessed
        /\ success => error_message = NoMessage
        /\ LET r == mark_item_completed(sync_items, progress, relative_path,
                                        success, error_message)
           IN /\ sync_items' = r.items
              /\ progress' = r.progress
        /\ syncOp' = Op("mark", relative_path, success)
        /\ UNCHANGED <<local_files, remote_files, is_syncing>>

StartSync ==
    /\ is_syncing' = TRUE
    /\ progress' = [progress EXCEPT !.processed_items = 0, !.bytes_processed = 0]
    /\ syncOp' = Op("start", <<>>, TRUE)
    /\ UNCHANGED <<local_files, remote_files, sync_items>>

FinishSync ==
    /\ is_syncing' = FALSE
    /\ syncOp' = Op("other", <<>>, TRUE)
    /\ UNCHANGED <<local_files, remote_files, sync_items, progress>>

\* get_sync_summary(): each item is counted once, under the first of the
\* tests of the if/elif chain that it passes
get_sync_summary(items) ==
    LET up_to_date == {p \in DOMAIN items : items[p].status = UP_TO_DATE}
        upload == {p \in DOMAIN items \ up_to_date : items[p].operation = UPLOAD}
        download == {p \in DOMAIN items \ (up_to_date \cup upload) :
                        items[p].operation = DOWNLOAD}
        conflicts == {p \in DOMAIN items \ (up_to_date \cup upload \cup download) :
                         items[p].status = CONFLICT}
        errors == {p \in DOMAIN items
                        \ (up_to_date \cup upload \cup download \cup conflicts) :
                      items[p].status = ERROR}
    IN [up_to_date |-> Cardinality(up_to_date),
        upload |-> Cardinality(upload),
        download |-> Cardinality(download),
        conflicts |-> Cardinality(conflicts),
        errors |-> Cardinality(errors),
        total_files |-> Cardinality(DOMAIN items)]

\* get_items_by_operation(operation): the paths of the items returned
get_items_by_operation(items, operation) ==
    {p \in DOMAIN items : items[p].operation = operation}

\* A sync run as its caller drives it: analyze_differences makes the plan,
\* then each planned item (operation upload or download) is transferred and
\* reported with mark_item_completed once.
RunAnalyze ==
    /\ AnalyzeDifferences
    /\ outcome' = [p \in get_items_by_operation(sync_items', UPLOAD)
                        \cup get_items_by_operation(sync_items', DOWNLOAD) |-> "pending"]

RunMark ==
    \E relative_path \in DOMAIN outcome, success \in BOOLEAN,
       error_message \in ErrorMessages :
        /\ outcome[relative_path] = "pending"
        /\ success => error_message = NoMessage
        /\ LET r == mark_item_completed(sync_items, progress, relative_path,
                                        success, error_message)
           IN /\ sync_items' = r.items
              /\ progress' = r.progress
        /\ syncOp' = Op("mark", relative_path, success)
        /\ outcome' = [outcome EXCEPT
                          ![relative_path] = IF success THEN "ok" ELSE error_message]
        /\ UNCHANGED <<local_files, remote_files, is_syncing>>

-----------------------------------------------------------------------------
(* Text on the device: JSON as json.dumps writes it, grep as the shell runs it *)

\* a character outside ASCII (an e with an acute accent)
NonAscii == "U+00E9"

\* str.lower() of one character (the letters of the model's texts)
Lower(c) ==
    CASE c = "X" -> "x"
      [] c = "Z" -> "z"
      [] c = "E" -> "e"
      [] c = "D" -> "d"
      [] c = "T" -> "t"
      [] c = "N" -> "n"
      [] OTHER -> c

\* grep -i PATTERN on a one-line file: some stretch of the text equals the
\* pattern, letter case ignored (no character of Titles is special to grep)
GrepIgnoreCase(text, pattern) ==
    \E i \in 1..(Len(text) - Len(pattern) + 1) :
        \A j \in 1..Len(pattern) : Lower(text[i + j - 1]) = Lower(pattern[j])

\* str.strip(): leading and trailing blanks removed
RECURSIVE Strip(_)
Strip(s) ==
    IF s = <<>> THEN s
    ELSE IF Head(s) = " " THEN Strip(Tail(s))
    ELSE IF s[Len(s)] = " " THEN Strip(SubSeq(s, 1, Len(s) - 1))
    ELSE s

\* json.dumps of one character of a string (ensure_ascii is on by default)
JsonEscapeChar(c) ==
    IF c = NonAscii THEN <<"\\", "u", "0", "0", "e", "9">>
    ELSE IF c = "\"" THEN <<"\\", "\"">>
    ELSE IF c = "\\" THEN <<"\\", "\\">>
    ELSE <<c>>

RECURSIVE JsonEscape(_)
JsonEscape(s) ==
    IF s = <<>> THEN <<>> ELSE JsonEscapeChar(Head(s)) \o JsonEscape(Tail(s))

\* json.loads of the inside of a string literal
RECURSIVE JsonUnescape(_)
JsonUnescape(s) ==
    IF s = <<>> THEN <<>>
    ELSE IF StartsWith(s, <<"\\", "u", "0", "0", "e", "9">>)
         THEN <<NonAscii>> \o JsonUnescape(SubSeq(s, 7, Len(s)))
    ELSE IF Head(s) = "\\" /\ Len(s) >= 2
         THEN <<s[2]>> \o JsonUnescape(SubSeq(s, 3, Len(s)))
    ELSE <<Head(s)>> \o JsonUnescape(Tail(s))

JsonString(s) == <<"\"">> \o JsonEscape(s) \o <<"\"">>

KeyParent == <<"p", "a", "r", "e", "n", "t">>
KeyType == <<"t", "y", "p", "e">>
KeyVisibleName == <<"v", "i", "s", "i", "b", "l", "e", "N", "a", "m", "e">>
DocumentType == <<"D", "o", "c", "u", "m", "e", "n", "t", "T", "y", "p", "e">>

\* json.dumps({"parent": .., "type": .., "visibleName": ..})
json_dumps(metadata) ==
    <<"{">> \o JsonString(KeyParent) \o <<":", " ">> \o JsonString(metadata.parent)
    \o <<",", " ">> \o JsonString(KeyType) \o <<":", " ">> \o JsonString(metadata.type)
    \o <<",", " ">> \o JsonString(KeyVisibleName) \o <<":", " ">>
    \o JsonString(metadata.visibleName) \o <<"}">>

_create_metadata_file(document_uuid, title) ==
    json_dumps([parent |-> <<>>, type |-> DocumentType, visibleName |-> title])

\* {"fileType": "<ext>"}: the text of a .content file, kept as what
\* json.loads makes of it (json: "object", a JSON value that is not an
\* object, or "invalid" text) and the value of its one field
_create_content_file(file_type) == [json |-> "object", fileType |-> file_type]

\* what json.loads makes of a text of the model: an object, another JSON value
\* (a list), or text that is not JSON (JSONDecodeError)
JsonKind(text) ==
    IF text = <<"[", "]">> THEN "other"
    ELSE IF Len(text) >= 2 /\ Head(text) = "{" /\ text[Len(text)] = "}" THEN "object"
    ELSE "invalid"

\* the text before and after the title in a .metadata file this adapter wrote
MetadataHead ==
    <<"{">> \o JsonString(KeyParent) \o <<":", " ">> \o JsonString(<<>>)
    \o <<",", " ">> \o JsonString(KeyType) \o <<":", " ">> \o JsonString(DocumentType)
    \o <<",", " ">> \o JsonString(KeyVisibleName) \o <<":", " ", "\"">>

MetadataTail == <<"\"", "}">>

\* json.loads(text)["visibleName"] for a .metadata file this adapter wrote
VisibleName(text) ==
    JsonUnescape(SubSeq(text, Len(MetadataHead) + 1, Len(text) - Len(MetadataTail)))

\* the first place of text where pat stands (0: nowhere)
IndexOf(text, pat) ==
    LET places == {i \in 1..(Len(text) - Len(pat) + 1) :
                      SubSeq(text, i, i + Len(pat) - 1) = pat}
    IN IF places = {} THEN 0
       ELSE CHOOSE i \in places : \A j \in places : i <= j

\* the inside of the string literal whose first character is text[i]
RECURSIVE ReadString(_, _)
ReadString(text, i) ==
    IF i > Len(text) \/ text[i] = "\"" THEN <<>>
    ELSE IF text[i] = "\\" /\ i < Len(text)
         THEN <<text[i], text[i + 1]>> \o ReadString(text, i + 2)
    ELSE <<text[i]>> \o ReadString(text, i + 1)

\* json.loads(text)[key] for a string-valued key of a JSON object
JsonField(text, key) ==
    LET opening == JsonString(key) \o <<":", " ", "\"">>
    IN JsonUnescape(ReadString(text, IndexOf(text, opening) + Len(opening)))

\* json.loads of the text of a .metadata file
json_loads(text) ==
    [parent |-> JsonField(text, KeyParent),
     type |-> JsonField(text, KeyType),
     visibleName |-> JsonField(text, KeyVisibleName)]

-----------------------------------------------------------------------------
(* The inputs of the adapter: UUIDs, titles, local files *)

\* how many UUIDs uuid4() can return before the model stops creating
MaxDocs == 2

UUIDs == 1..MaxDocs

\* no UUID: None as a result, the empty string as an argument
NoUuid == 0

Titles ==
    { <<>>,                \* empty
      <<"x">>,
      <<"X">>,             \* "x" in the other case
      <<"x", "z">>,        \* contains "x"
      <<"e">>,             \* a letter of "parent", "type", "visibleName"
      <<NonAscii>> }

File(exists, suffix) == [exists |-> exists, suffix |-> suffix]

LocalFiles == {File(TRUE, "pdf"), File(TRUE, "epub"), File(TRUE, "txt"),
               File(FALSE, "pdf")}

\* the titles without the empty, the skeleton and the non-ASCII one
PlainTitles == {<<"x">>, <<"x", "z">>}

PdfFiles == {File(TRUE, "pdf")}

\* the first device step of a create that fails ("none": all succeed; a failed
\* step leaves the device as it was)
CreateFailures == {"none", "upload", "metadata", "content", "restart"}

-----------------------------------------------------------------------------
(* ReMarkableService *)

\* _create_metadata_file and the grep of hash_from_title over the texts and
\* titles of the model, computed once
MetadataOf == [title \in Titles |-> _create_metadata_file(NoUuid, title)]

GrepTable ==
    [text \in {MetadataOf[title] : title \in Titles}, pattern \in Titles |->
        GrepIgnoreCase(text, pattern)]

NoFiles == [u \in {} |-> <<>>]

EmptyDevice == [payload |-> NoFiles, metadata |-> NoFiles, content |-> NoFiles]

\* d with d[k] = v, as writing a file does
Put(d, k, v) == [x \in DOMAIN d \cup {k} |-> IF x = k THEN v ELSE d[x]]

\* d without k, as rm -f does
Drop(d, k) == [x \in DOMAIN d \ {k} |-> d[x]]

\* the last of the names instead of the first
Last(S) == CHOOSE u \in S : \A v \in S : u >= v

Min(S) == CHOOSE u \in S : \A v \in S : u <= v

\* a UUID that is not random: one returned before can come again
RepeatingUuids == UUIDs

\* the UUID a create would get from uuid4(): any not returned before
FreshUuids == IF UUIDs \ used = {} THEN {NoUuid} ELSE UUIDs \ used

\* the artifacts written so far removed again when a step fails
add_file_with_cleanup(d, suffix, local_path, title, document_uuid, failing) ==
    IF ~local_path.exists \/ local_path.suffix # suffix THEN
        [result |-> NoUuid, dev |-> d, created |-> FALSE, log |-> <<>>]
    ELSE IF failing = "upload" THEN
        [result |-> NoUuid, dev |-> d, created |-> TRUE, log |-> <<"upload">>]
    ELSE IF failing = "metadata" THEN
        [result |-> NoUuid, dev |-> d, created |-> TRUE,
         log |-> <<"upload", "metadata">>]
    ELSE IF failing = "content" THEN
        [result |-> NoUuid, dev |-> d, created |-> TRUE,
         log |-> <<"upload", "metadata", "content">>]
    ELSE [result |-> document_uuid,
          dev |-> [payload |-> Put(d.payload, document_uuid, suffix),
                   metadata |-> Put(d.metadata, document_uuid, MetadataOf[title]),
                   content |-> Put(d.content, document_uuid,
                                   _create_content_file(suffix))],
          created |-> TRUE,
          log |-> <<"upload", "metadata", "content", "restart">>]

\* add_pdf_with_metadata / add_epub_with_metadata (suffix ".pdf" / ".epub"):
\* result, the device afterwards, whether a UUID was generated, and the device
\* steps made, in order
add_file_with_metadata(d, suffix, local_path, title, document_uuid, failing) ==
    IF ~local_path.exists \/ local_path.suffix # suffix THEN
        [result |-> NoUuid, dev |-> d, created |-> FALSE, log |-> <<>>]
    ELSE IF failing = "upload" THEN
        [result |-> NoUuid, dev |-> d, created |-> TRUE, log |-> <<"upload">>]
    ELSE LET d1 == [d EXCEPT !.payload = Put(@, document_uuid, suffix)]
         IN IF failing = "metadata" THEN
                [result |-> NoUuid, dev |-> d1, created |-> TRUE,
                 log |-> <<"upload", "metadata">>]
            ELSE LET d2 == [d1 EXCEPT !.metadata =
                                Put(@, document_uuid, MetadataOf[title])]
                 IN IF failing = "content" THEN
                        [result |-> NoUuid, dev |-> d2, created |-> TRUE,
                         log |-> <<"upload", "metadata", "content">>]
                    ELSE [result |-> document_uuid,
                          dev |-> [d2 EXCEPT !.content =
                                      Put(@, document_uuid,
                                          _create_content_file(suffix))],
                          created |-> TRUE,
                          log |-> <<"upload", "metadata", "content", "restart">>]

add_pdf_with_metadata(d, local_pdf_path, title, document_uuid, failing) ==
    add_file_with_metadata(d, "pdf", local_pdf_path, title, document_uuid, failing)

add_epub_with_metadata(d, local_epub_path, title, document_uuid, failing) ==
    add_file_with_metadata(d, "epub", local_epub_path, title, document_uuid, failing)

\* grep -l -i '<title>' *metadata | sed 's/.metadata//': the files that match,
\* in the order of the glob (sorted by name)
GrepMatches(d, title) ==
    {u \in DOMAIN d.metadata : GrepTable[d.metadata[u], title]}

\* hash_from_title; command_ok: the search command ran and exited 0
hash_from_title(d, title, command_ok) ==
    IF Strip(title) = <<>> THEN NoUuid
    ELSE IF ~command_ok THEN NoUuid
    ELSE LET uuids == GrepMatches(d, title)
         IN IF uuids = {} THEN NoUuid ELSE Min(uuids)

\* the device step of hash_from_title (none for a blank title)
SearchLog(title) == IF Strip(title) = <<>> THEN <<>> ELSE <<"search">>

add_with_metadata_if_new(d, local_file_path, title, document_uuid, search_ok, failing) ==
    LET existing_uuid == hash_from_title(d, title, search_ok)
        add == IF local_file_path.suffix = "pdf" THEN
                   add_pdf_with_metadata(d, local_file_path, title, document_uuid,
                                         failing)
               ELSE IF local_file_path.suffix = "epub" THEN
                   add_epub_with_metadata(d, local_file_path, title, document_uuid,
                                          failing)
               ELSE [result |-> NoUuid, dev |-> d, created |-> FALSE, log |-> <<>>]
    IN IF existing_uuid # NoUuid THEN
           [result |-> existing_uuid, dev |-> d, created |-> FALSE,
            log |-> SearchLog(title)]
       ELSE [add EXCEPT !.log = SearchLog(title) \o @]

\* content_info of get_document_info: {} when the .content cannot be read or
\* is not JSON, otherwise what json.loads returns
ContentInfo(d, document_uuid) ==
    IF document_uuid \in DOMAIN d.content /\ d.content[document_uuid].json # "invalid"
    THEN d.content[document_uuid]
    ELSE [json |-> "object", fileType |-> "unknown"]

\* get_document_info returns a descriptor, not None. None: the cat of the
\* .metadata fails, its text is not JSON, or .get is called on a value that is
\* not a dict (of the metadata or of the content: the AttributeError is caught
\* by the method's except clause)
HasInfo(d, document_uuid, readable) ==
    /\ document_uuid \in DOMAIN d.metadata
    /\ document_uuid \in readable
    /\ JsonKind(d.metadata[document_uuid]) = "object"
    /\ ContentInfo(d, document_uuid).json = "object"

\* list_all_documents: the UUIDs of the descriptors returned, in listing order;
\* readable: the UUIDs whose `cat <uuid>.metadata` succeeds
list_all_documents(d, command_ok, readable) ==
    IF ~command_ok THEN {}
    ELSE {u \in DOMAIN d.metadata : HasInfo(d, u, readable)}

\* rm -f <uuid>.pdf <uuid>.epub: the payload alone
RemovePayload(d, document_uuid) ==
    [d EXCEPT !.payload = Drop(@, document_uuid)]

\* rm -f <uuid>.* in the xochitl directory
RemoveArtifacts(d, document_uuid) ==
    [payload |-> Drop(d.payload, document_uuid),
     metadata |-> Drop(d.metadata, document_uuid),
     content |-> Drop(d.content, document_uuid)]

\* a delete that reloads the index whether or not the rm succeeded
delete_reloading_always(d, document_uuid, command_ok) ==
    IF document_uuid = NoUuid THEN [result |-> FALSE, dev |-> d, log |-> <<>>]
    ELSE IF ~command_ok THEN
        [result |-> FALSE, dev |-> d, log |-> <<"rm", "restart">>]
    ELSE [result |-> TRUE, dev |-> RemoveArtifacts(d, document_uuid),
          log |-> <<"rm", "restart">>]

\* delete_document: result, the device afterwards and the device steps made
delete_document(d, document_uuid, command_ok) ==
    IF document_uuid = NoUuid THEN [result |-> FALSE, dev |-> d, log |-> <<>>]
    ELSE IF ~command_ok THEN [result |-> FALSE, dev |-> d, log |-> <<"rm">>]
    ELSE [result |-> TRUE, dev |-> RemoveArtifacts(d, document_uuid),
          log |-> <<"rm", "restart">>]

\* the new title of a rename: as given, or with blanks around it
RenameTitles == PlainTitles \cup {<<" ", "x">>}

\* the steps of rename_document that can fail
RenameFailures == {"none", "read", "parse", "write", "restart"}

\* json.dumps of the parsed metadata with visibleName replaced, over the texts
\* and titles of the model, computed once
RenameTable ==
    [text \in {MetadataOf[title] : title \in Titles}, new_title \in RenameTitles |->
        json_dumps([json_loads(text) EXCEPT !.visibleName = Strip(new_title)])]

\* json.loads of the .metadata texts of the model, computed once
ParsedOf ==
    [text \in {MetadataOf[title] : title \in Titles} |-> json_loads(text)]

\* a rename that needs no current metadata: when it cannot be read or parsed a
\* new .metadata is written
rename_without_reading(d, document_uuid, new_title, failing) ==
    IF document_uuid = NoUuid \/ Strip(new_title) = <<>> THEN
        [result |-> FALSE, dev |-> d, log |-> <<>>]
    ELSE IF failing = "write" THEN
        [result |-> FALSE, dev |-> d, log |-> <<"cat", "echo">>]
    ELSE [result |-> TRUE,
          dev |-> [d EXCEPT !.metadata =
                      Put(@, document_uuid, MetadataOf[Strip(new_title)])],
          log |-> <<"cat", "echo", "restart">>]

\* rename_document: result, the device afterwards and the device steps made;
\* the cat of a .metadata that does not exist fails
rename_document(d, document_uuid, new_title, failing) ==
    IF document_uuid = NoUuid \/ Strip(new_title) = <<>> THEN
        [result |-> FALSE, dev |-> d, log |-> <<>>]
    ELSE IF failing = "read" \/ document_uuid \notin DOMAIN d.metadata THEN
        [result |-> FALSE, dev |-> d, log |-> <<"cat">>]
    ELSE IF failing = "parse" THEN
        [result |-> FALSE, dev |-> d, log |-> <<"cat">>]
    ELSE IF failing = "write" THEN
        [result |-> FALSE, dev |-> d, log |-> <<"cat", "echo">>]
    ELSE [result |-> TRUE,
          dev |-> [d EXCEPT !.metadata[document_uuid] = RenameTable[@, new_title]],
          log |-> <<"cat", "echo", "restart">>]

\* download_document: whether the payload was fetched. info_ok: the .metadata
\* could be read and parsed; transfer_ok: the transfer of an existing file
\* succeeds. The file fetched is <uuid>.<fileType of the .content>, or
\* <uuid>.unknown when there is no .content.
download_document(d, document_uuid, info_ok, transfer_ok) ==
    IF document_uuid = NoUuid THEN FALSE
    ELSE IF ~info_ok \/ ~HasInfo(d, document_uuid, {document_uuid}) THEN FALSE
    ELSE LET file_type == ContentInfo(d, document_uuid).fileType
         IN /\ document_uuid \in DOMAIN d.payload
            /\ d.payload[document_uuid] = file_type
            /\ transfer_ok

\* call.failing: the device step of the call that did not succeed ("none":
\* every step made succeeded); call.log: the device steps made, in order;
\* call.network: the network service during the call; call.raised: the call
\* ended with an exception instead of a return value; call.readable: the UUIDs
\* whose `cat <uuid>.metadata` succeeded during a list_all_documents
Call(op, title, file, uuid, result, ok, clean, created, listed) ==
    [op |-> op, title |-> title, file |-> file, uuid |-> uuid, result |-> result,
     ok |-> ok, clean |-> clean, created |-> created, listed |-> listed,
     failing |-> "none", log |-> <<>>, network |-> "connected", raised |-> FALSE,
     readable |-> UUIDs]

NoFile == File(FALSE, "")

NoPrior == [uuid |-> NoUuid, existed |-> FALSE]

\* how a device step that does not succeed ends in the method that made it:
\* without a network service _execute_command and _upload_file return a
\* failure, as after a non-zero exit
StepFailure(net) == IF net = "raising" THEN "exception" ELSE "status"

\* a method body without its except clause
TryOnly(end) == IF end = "exception" THEN "raised" ELSE "returned"

\* try: ... except Exception as e: log and return the failure value
TryExcept(end) == "returned"

\* the record of a call whose step `failing` did not succeed
Made(c, failing, log) ==
    [c EXCEPT !.failing = failing, !.log = log, !.network = network,
              !.raised = failing \notin {"none", "restart"}
                         /\ TryExcept(StepFailure(network)) = "raised"]

DevInit ==
    /\ dev = EmptyDevice
    /\ used = {}
    /\ network = "connected"
    /\ call = Call("init", <<>>, NoFile, NoUuid, NoUuid, TRUE, TRUE, FALSE, {})
    /\ prior = NoPrior

\* call.clean: no device step of the call failed
AddWithMetadataIfNew(titles, files) ==
    \E title \in titles, file \in files, u \in FreshUuids,
       search_ok \in BOOLEAN, failing \in CreateFailures :
        \E r \in {add_with_metadata_if_new(dev, file, title, u, search_ok, failing)} :
           /\ r.created => u # NoUuid
           /\ ~r.created => failing = "none"
           /\ SearchLog(title) = <<>> => search_ok
           /\ (network # "connected" /\ SearchLog(title) # <<>>) => ~search_ok
           /\ (network # "connected" /\ r.created) => failing = "upload"
           /\ dev' = r.dev
           /\ used' = IF r.created THEN used \cup {u} ELSE used
           /\ call' = Made(Call("add_if_new", title, file, NoUuid, r.result,
                                r.result # NoUuid,
                                search_ok /\ (r.created => failing = "none"),
                                r.created, {}),
                           IF failing # "none" THEN failing
                           ELSE IF ~search_ok THEN "search" ELSE "none",
                           r.log)
           /\ prior' = NoPrior
           /\ UNCHANGED network

\* add_pdf_with_metadata or add_epub_with_metadata, as the caller chooses
CreateDocument(titles, files) ==
    \E title \in titles, file \in files, u \in FreshUuids,
       method \in {"pdf", "epub"}, failing \in CreateFailures :
        \E r \in {IF method = "pdf"
                  THEN add_pdf_with_metadata(dev, file, title, u, failing)
                  ELSE add_epub_with_metadata(dev, file, title, u, failing)} :
           /\ r.created => u # NoUuid
           /\ ~r.created => failing = "none"
           /\ (network # "connected" /\ r.created) => failing = "upload"
           /\ dev' = r.dev
           /\ used' = IF r.created THEN used \cup {u} ELSE used
           /\ call' = Made(Call("create", title, file,
                                IF r.created THEN u ELSE NoUuid, r.result,
                                r.result # NoUuid, failing = "none", r.created, {}),
                           failing, r.log)
           /\ prior' = NoPrior
           /\ UNCHANGED network

HashFromTitle(titles) ==
    \E title \in titles, command_ok \in BOOLEAN :
        \E r \in {hash_from_title(dev, title, command_ok)} :
           /\ SearchLog(title) = <<>> => command_ok
           /\ (network # "connected" /\ SearchLog(title) # <<>>) => ~command_ok
           /\ call' = Made(Call("find", title, NoFile, NoUuid, r, r # NoUuid,
                                command_ok, FALSE, {}),
                           IF command_ok THEN "none" ELSE "search",
                           SearchLog(title))
           /\ prior' = NoPrior
           /\ UNCHANGED <<dev, used, network>>

\* restart_ok: the index reload succeeded (a failure is only logged);
\* call.listed: the documents with a .metadata when the call began
DeleteDocument ==
    \E document_uuid \in UUIDs \cup {NoUuid}, command_ok \in BOOLEAN,
       restart_ok \in BOOLEAN :
        \E r \in {delete_document(dev, document_uuid, command_ok)} :
           /\ ~r.result => restart_ok
           /\ r.log = <<>> => command_ok
           /\ (network # "connected" /\ r.log # <<>>) => ~command_ok
           /\ dev' = r.dev
           /\ call' = Made(Call("delete", <<>>, NoFile, document_uuid, NoUuid,
                                r.result, command_ok /\ restart_ok, FALSE,
                                DOMAIN dev.metadata),
                           IF ~command_ok THEN "rm"
                           ELSE IF ~restart_ok THEN "restart" ELSE "none",
                           r.log)
           /\ prior' = NoPrior
           /\ UNCHANGED <<used, network>>

ListAllDocuments ==
    \E command_ok \in BOOLEAN, readable \in SUBSET UUIDs :
        /\ ~command_ok => readable = UUIDs
        /\ network # "connected" => ~command_ok
        /\ call' = [Made(Call("list", <<>>, NoFile, NoUuid, NoUuid, TRUE,
                              command_ok /\ readable = UUIDs, FALSE,
                              list_all_documents(dev, command_ok, readable)),
                         IF command_ok THEN "none" ELSE "list",
                         <<"list">>)
                    EXCEPT !.readable = readable]
        /\ prior' = IF call.op = "delete" /\ call.ok
                    THEN [uuid |-> call.uuid, existed |-> call.uuid \in call.listed]
                    ELSE NoPrior
        /\ UNCHANGED <<dev, used, network>>

\* call.title: the new title as given
RenameDocument(titles) ==
    \E document_uuid \in UUIDs \cup {NoUuid}, new_title \in titles,
       failing \in RenameFailures :
        \E r \in {rename_document(dev, document_uuid, new_title, failing)} :
           /\ r.log = <<>> => failing = "none"
           /\ (r.log # <<>> /\ document_uuid \notin DOMAIN dev.metadata)
                => failing = "read"
           /\ (network # "connected" /\ r.log # <<>>) => failing = "read"
           /\ dev' = r.dev
           /\ call' = Made(Call("rename", new_title, NoFile, document_uuid, NoUuid,
                                r.result, failing = "none", FALSE, {}),
                           failing, r.log)
           /\ prior' = NoPrior
           /\ UNCHANGED <<used, network>>

DownloadDocument ==
    \E document_uuid \in UUIDs \cup {NoUuid}, info_ok \in BOOLEAN,
       transfer_ok \in BOOLEAN :
        \E r \in {download_document(dev, document_uuid, info_ok, transfer_ok)} :
           /\ document_uuid = NoUuid => (info_ok /\ transfer_ok)
           /\ ~info_ok => transfer_ok
           /\ network # "connected" => (document_uuid = NoUuid \/ ~info_ok)
           /\ call' = Made(Call("download", <<>>, NoFile, document_uuid, NoUuid,
                                r, info_ok /\ transfer_ok, FALSE, {}),
                           IF ~info_ok THEN "info"
                           ELSE IF ~r /\ document_uuid # NoUuid THEN "download"
                           ELSE "none",
                           IF document_uuid = NoUuid THEN <<>>
                           ELSE IF ~info_ok THEN <<"cat">>
                           ELSE <<"cat", "cat", "download">>)
           /\ prior' = NoPrior
           /\ UNCHANGED <<dev, used, network>>

\* init_network_service(): the global network service comes into being
InitNetworkService ==
    /\ network = "uninitialized"
    /\ network' = "connected"
    /\ UNCHANGED <<dev, used, call, prior>>

\* the connection breaks, so that the calls of the network service raise, or
\* comes back
ConnectionFault ==
    /\ network # "uninitialized"
    /\ network' = IF network = "connected" THEN "raising" ELSE "connected"
    /\ UNCHANGED <<dev, used, call, prior>>

-----------------------------------------------------------------------------
(* NetworkService: connect() and disconnect() under the connection lock *)

DISCONNECTED == "disconnected"
CONNECTING == "connecting"
CONNECTED == "connected"
AUTHENTICATION_FAILED == "auth_failed"
HOST_KEY_ERROR == "host_key_error"
NETWORK_ERROR == "network_error"
\* ConnectionStatus.ERROR
CONNECTION_ERROR == "error"

\* the threads that use the one NetworkService
MaxCallers == 2

Callers == 1..MaxCallers

\* the lock is free
NoThread == 0

max_retries == 3

\* how one pass of the retry loop ends: connected, or the exception raised
\* ("client": by SSHClient(), "sftp": by open_sftp() after the connection was
\* made)
AttemptOutcomes ==
    {"connected", "authentication", "host_key", "network", "client", "sftp"}

is_connected == connection_status = CONNECTED /\ ssh_client = "active"

IdleCaller == [pc |-> "idle", force_reconnect |-> FALSE, attempt |-> 0,
               ret |-> "idle", result |-> "none"]

\* the method returns `value` to thread t
Return(t, value) == [caller EXCEPT ![t].pc = "idle", ![t].result = value]

\* thread t calls method m; ret: where t goes on when the method returns
Enter(t, m, ret) == [caller EXCEPT ![t].pc = m, ![t].ret = ret]

NetInit ==
    /\ ssh_client = "None"
    /\ sftp_client = FALSE
    /\ connection_status = DISCONNECTED
    /\ _connection_lock = NoThread
    /\ hostname = FALSE
    /\ caller = [t \in Callers |-> IdleCaller]

\* set_connection_details: disconnects when connected
SetConnectionDetails(t) ==
    /\ caller[t].pc = "idle"
    /\ hostname' = TRUE
    /\ caller' = IF is_connected THEN Enter(t, "disconnect", "idle") ELSE caller
    /\ UNCHANGED <<ssh_client, sftp_client, connection_status, _connection_lock>>

\* a thread calls connect(force_reconnect)
CallConnect(t) ==
    \E force \in BOOLEAN :
        /\ caller[t].pc = "idle"
        /\ caller' = [caller EXCEPT ![t] = [IdleCaller EXCEPT
                                              !.pc = "connect",
                                              !.force_reconnect = force]]
        /\ UNCHANGED <<ssh_client, sftp_client, connection_status, _connection_lock,
                       hostname>>

\* connect(): `with self._connection_lock:` and the statements before the
\* retry loop. The early returns leave the with block, which frees the lock.
ConnectEnter(t) ==
    /\ caller[t].pc = "connect"
    /\ _connection_lock = NoThread
    /\ IF is_connected /\ ~caller[t].force_reconnect THEN
           /\ caller' = Return(t, "True")
           /\ UNCHANGED <<connection_status, _connection_lock>>
       ELSE IF ~hostname THEN
           /\ connection_status' = CONNECTION_ERROR
           /\ caller' = Return(t, "False")
           /\ UNCHANGED _connection_lock
       ELSE IF ssh_client # "None" THEN
           /\ _connection_lock' = t
           /\ caller' = Enter(t, "disconnect", "attempt")
           /\ UNCHANGED connection_status
       ELSE
           /\ _connection_lock' = t
           /\ caller' = [caller EXCEPT ![t].pc = "attempt"]
           /\ UNCHANGED connection_status
    /\ UNCHANGED <<ssh_client, sftp_client, hostname>>

\* one pass of the retry loop of connect()
Attempt(t) ==
    \E end \in AttemptOutcomes :
        /\ caller[t].pc = "attempt"
        /\ caller[t].attempt < max_retries
        /\ ssh_client' = IF end = "client" THEN ssh_client
                         ELSE IF end \in {"connected", "sftp"} THEN "active"
                         ELSE "new"
        /\ sftp_client' = IF end = "connected" THEN TRUE ELSE sftp_client
        /\ connection_status' =
             CASE end = "connected" -> CONNECTED
               [] end = "authentication" -> AUTHENTICATION_FAILED
               [] end = "host_key" -> HOST_KEY_ERROR
               [] end = "network" -> NETWORK_ERROR
               [] OTHER -> CONNECTION_ERROR
        /\ _connection_lock' = IF end = "connected" THEN NoThread ELSE _connection_lock
        /\ caller' =
             IF end = "connected" THEN Return(t, "True")
             ELSE IF end = "network" /\ caller[t].attempt + 1 < max_retries
                  THEN [caller EXCEPT ![t].attempt = @ + 1]
             ELSE [caller EXCEPT ![t].pc = "cleanup"]
        /\ UNCHANGED hostname

\* connect() after the loop: `if self.ssh_client: self.disconnect()`, then
\* `return False`, which leaves the with block
CleanUp(t) ==
    /\ caller[t].pc \in {"cleanup", "cleaned"}
    /\ IF caller[t].pc = "cleanup" /\ ssh_client # "None"
       THEN /\ caller' = Enter(t, "disconnect", "cleaned")
            /\ UNCHANGED _connection_lock
       ELSE /\ caller' = Return(t, "False")
            /\ _connection_lock' = NoThread
    /\ UNCHANGED <<ssh_client, sftp_client, connection_status, hostname>>

\* a thread calls disconnect()
CallDisconnect(t) ==
    /\ caller[t].pc = "idle"
    /\ caller' = Enter(t, "disconnect", "idle")
    /\ UNCHANGED <<ssh_client, sftp_client, connection_status, _connection_lock,
                   hostname>>

\* disconnect(): `with self._connection_lock:` waits until the lock is free,
\* whichever thread holds it (a threading.Lock is not reentrant); then the
\* clients are closed and the lock is freed again
Disconnect(t) ==
    /\ caller[t].pc = "disconnect"
    /\ _connection_lock = NoThread
    /\ sftp_client' = FALSE
    /\ ssh_client' = "None"
    /\ connection_status' = DISCONNECTED
    /\ caller' = [caller EXCEPT ![t].pc = caller[t].ret, ![t].ret = "idle"]
    /\ UNCHANGED <<_connection_lock, hostname>>

\* the transport of the connected client stops being active
ConnectionLost ==
    /\ ssh_client = "active"
    /\ ssh_client' = "inactive"
    /\ UNCHANGED <<sftp_client, connection_status, _connection_lock, hostname, caller>>

-----------------------------------------------------------------------------
(* Upload workers: add_with_metadata_if_new step by step *)

\* the upload workers of the GUI that are running at once
MaxWorkers == 2

Workers == 1..MaxWorkers

\* the titles the files of the upload queue give
WorkerTitles == {<<"x">>, <<"x", "z">>}

IdleWorker == [pc |-> "idle", title |-> <<>>, uuid |-> NoUuid, result |-> NoUuid]

WorkerInit == worker = [w \in Workers |-> IdleWorker]

\* _upload_worker takes a PDF of the queue and calls
\* add_with_metadata_if_new(file_path, title): the search of hash_from_title
\* and, when it finds nothing, the call of add_pdf_with_metadata
WorkerSearch(w) ==
    \E title \in WorkerTitles :
        \E existing_uuid \in {hash_from_title(dev, title, TRUE)} :
           /\ worker[w].pc = "idle"
           /\ worker' = [worker EXCEPT ![w] =
                           IF existing_uuid # NoUuid
                           THEN [pc |-> "done", title |-> title, uuid |-> NoUuid,
                                 result |-> existing_uuid]
                           ELSE [pc |-> "upload", title |-> title, uuid |-> NoUuid,
                                 result |-> NoUuid]]
           /\ UNCHANGED <<dev, used>>

\* add_pdf_with_metadata: _generate_uuid and the upload of the payload
WorkerUpload(w) ==
    \E u \in FreshUuids :
        /\ worker[w].pc = "upload"
        /\ u # NoUuid
        /\ dev' = [dev EXCEPT !.payload = Put(@, u, "pdf")]
        /\ used' = used \cup {u}
        /\ worker' = [worker EXCEPT ![w].pc = "metadata", ![w].uuid = u]

\* add_pdf_with_metadata: the write of the .metadata
WorkerMetadata(w) ==
    /\ worker[w].pc = "metadata"
    /\ dev' = [dev EXCEPT !.metadata = Put(@, worker[w].uuid, MetadataOf[worker[w].title])]
    /\ worker' = [worker EXCEPT ![w].pc = "content"]
    /\ UNCHANGED used

\* add_pdf_with_metadata: the write of the .content, the restart of xochitl
\* and the return of the UUID
WorkerContent(w) ==
    /\ worker[w].pc = "content"
    /\ dev' = [dev EXCEPT !.content = Put(@, worker[w].uuid, _create_content_file("pdf"))]
    /\ worker' = [worker EXCEPT ![w].pc = "done", ![w].result = worker[w].uuid]
    /\ UNCHANGED used

-----------------------------------------------------------------------------
(* Specifications *)

Init == SyncInit /\ DevInit /\ NetInit /\ WorkerInit

\* the SyncState engine alone
SyncNext ==
    /\ UNCHANGED devVars
    /\ UNCHANGED <<netVars, worker>>
    /\ UNCHANGED outcome
    /\ \/ ScanLocalDirectory
       \/ UpdateRemoteFiles
       \/ AnalyzeDifferences
       \/ MarkItemCompleted
       \/ StartSync
       \/ FinishSync

SyncSpec == Init /\ [][SyncNext]_vars

\* sync runs: scans and listings at any time, and between two analyses each
\* planned item reported once
RunNext ==
    /\ UNCHANGED devVars
    /\ UNCHANGED <<netVars, worker>>
    /\ \/ ScanLocalDirectory /\ UNCHANGED outcome
       \/ UpdateRemoteFiles /\ UNCHANGED outcome
       \/ RunAnalyze
       \/ StartSync /\ UNCHANGED outcome
       \/ RunMark
       \/ FinishSync /\ UNCHANGED outcome

RunSpec == Init /\ [][RunNext]_vars

\* sequential add_with_metadata_if_new calls alone
AddNext ==
    /\ UNCHANGED syncVars
    /\ UNCHANGED <<netVars, worker>>
    /\ AddWithMetadataIfNew(Titles, LocalFiles)

AddSpec == Init /\ [][AddNext]_vars

\* title searches over the documents that adds of PDFs leave
FindNext ==
    /\ UNCHANGED syncVars
    /\ UNCHANGED <<netVars, worker>>
    /\ \/ AddWithMetadataIfNew(Titles, PdfFiles)
       \/ CreateDocument(Titles, PdfFiles)
       \/ HashFromTitle(Titles)

FindSpec == Init /\ [][FindNext]_vars

\* the adapter: adds, searches, deletes and listings in any order
Next ==
    /\ UNCHANGED syncVars
    /\ UNCHANGED <<netVars, worker>>
    /\ \/ AddWithMetadataIfNew(PlainTitles, LocalFiles)
       \/ HashFromTitle(PlainTitles)
       \/ DeleteDocument
       \/ ListAllDocuments

Spec == Init /\ [][Next]_vars

\* the operations that write to the device: creates, renames and deletes
EditNext ==
    /\ UNCHANGED syncVars
    /\ UNCHANGED <<netVars, worker>>
    /\ \/ CreateDocument(PlainTitles, LocalFiles)
       \/ RenameDocument(RenameTitles \cup {<<>>})
       \/ DeleteDocument

EditSpec == Init /\ [][EditNext]_vars

\* list_all_documents over the devices it can meet: documents written by the
\* adapter, by the tablet's own software or by hand, and files cut short
Truncated == <<"{">>

JsonList == <<"[", "]">>

MetadataTexts == {MetadataOf[<<"x">>], MetadataOf[<<"x", "z">>], Truncated, JsonList}

ContentTexts == {_create_content_file("pdf"),
                 [json |-> "invalid", fileType |-> ""],
                 [json |-> "other", fileType |-> ""]}

Devices ==
    {d \in UNION {[payload : [S -> {"pdf"}],
                   metadata : [S -> MetadataTexts],
                   content : UNION {[C -> ContentTexts] : C \in SUBSET S}]
                  : S \in SUBSET UUIDs} : TRUE}

ListInit ==
    /\ SyncInit
    /\ NetInit
    /\ WorkerInit
    /\ dev \in Devices
    /\ used = DOMAIN dev.metadata
    /\ network = "connected"
    /\ call = Call("init", <<>>, NoFile, NoUuid, NoUuid, TRUE, TRUE, FALSE, {})
    /\ prior = NoPrior

ListNext ==
    /\ UNCHANGED syncVars
    /\ UNCHANGED <<netVars, worker>>
    /\ ListAllDocuments

ListSpec == ListInit /\ [][ListNext]_vars

\* threads that call connect(), disconnect() and set_connection_details() on
\* the one NetworkService, and a connection that can be lost
ConnNext ==
    /\ UNCHANGED syncVars
    /\ UNCHANGED devVars
    /\ UNCHANGED worker
    /\ \/ \E t \in Callers : SetConnectionDetails(t)
       \/ \E t \in Callers : CallConnect(t)
       \/ \E t \in Callers : ConnectEnter(t)
       \/ \E t \in Callers : Attempt(t)
       \/ \E t \in Callers : CleanUp(t)
       \/ \E t \in Callers : CallDisconnect(t)
       \/ \E t \in Callers : Disconnect(t)
       \/ ConnectionLost

ConnSpec == Init /\ [][ConnNext]_vars

\* upload workers started by two clicks on Upload, each adding a file of the
\* queue
UploadNext ==
    /\ UNCHANGED syncVars
    /\ UNCHANGED netVars
    /\ UNCHANGED <<network, call, prior>>
    /\ \/ \E w \in Workers : WorkerSearch(w)
       \/ \E w \in Workers : WorkerUpload(w)
       \/ \E w \in Workers : WorkerMetadata(w)
       \/ \E w \in Workers : WorkerContent(w)

UploadSpec == Init /\ [][UploadNext]_vars

\* every operation, with a network service that is missing at first and can
\* break
FaultInit ==
    /\ SyncInit
    /\ NetInit
    /\ WorkerInit
    /\ dev = EmptyDevice
    /\ used = {}
    /\ network = "uninitialized"
    /\ call = Call("init", <<>>, NoFile, NoUuid, NoUuid, TRUE, TRUE, FALSE, {})
    /\ prior = NoPrior

FaultNext ==
    /\ UNCHANGED syncVars
    /\ UNCHANGED <<netVars, worker>>
    /\ \/ InitNetworkService
       \/ ConnectionFault
       \/ AddWithMetadataIfNew({<<"x">>}, PdfFiles)
       \/ CreateDocument({<<"x">>}, PdfFiles)
       \/ HashFromTitle({<<"x">>})
       \/ DeleteDocument
       \/ RenameDocument({<<"x", "z">>})
       \/ ListAllDocuments
       \/ DownloadDocument

FaultSpec == FaultInit /\ [][FaultNext]_vars

-----------------------------------------------------------------------------
(* Claims about SyncState, checked under SyncSpec *)

\* C3: diff determinism. Whatever calls came before (earlier analyses, marks,
\* start_sync, finish_sync, scans), analyze_differences leaves the items and
\* totals it leaves on a newly constructed SyncState holding the same local
\* and remote files.
C3_DiffDeterminism ==
    syncOp.op = "analyze" =>
        LET fresh == analyze_differences(EmptyItems, NewProgress,
                                         local_files, remote_files)
        IN /\ DOMAIN sync_items = DOMAIN fresh.items
           /\ \A p \in DOMAIN sync_items :
                /\ sync_items[p].status = fresh.items[p].status
                /\ sync_items[p].operation = fresh.items[p].operation
           /\ progress = fresh.progress

\* an analysis made while a sync run is open, over a plan of two items
C3_Witness ==
    /\ syncOp.op = "analyze"
    /\ is_syncing
    /\ Cardinality(DOMAIN sync_items) = 2

\* C4: the decision table, row by row, for every path of the union.
C4_Row(p) ==
    LET hasL == p \in DOMAIN local_files
        hasR == p \in DOMAIN remote_files
        item == sync_items[p]
        is(st, o) == item.status = st /\ item.operation = o
    IN /\ (hasL /\ hasR /\ local_files[p].checksum = remote_files[p].checksum)
            => is(UP_TO_DATE, SKIP)
       /\ (hasL /\ hasR /\ local_files[p].checksum # remote_files[p].checksum
                /\ local_files[p].modified_time > remote_files[p].modified_time)
            => is(MODIFIED_LOCAL, UPLOAD)
       /\ (hasL /\ hasR /\ local_files[p].checksum # remote_files[p].checksum
                /\ local_files[p].modified_time < remote_files[p].modified_time)
            => is(MODIFIED_REMOTE, DOWNLOAD)
       /\ (hasL /\ hasR /\ local_files[p].checksum # remote_files[p].checksum
                /\ local_files[p].modified_time = remote_files[p].modified_time)
            => is(CONFLICT, SKIP)
       /\ (hasL /\ ~hasR) => is(NEW_LOCAL, UPLOAD)
       /\ (~hasL /\ hasR) => is(NEW_REMOTE, DOWNLOAD)

C4_DecisionTable ==
    syncOp.op = "analyze" =>
        /\ DOMAIN sync_items = DOMAIN local_files \cup DOMAIN remote_files
        /\ \A p \in DOMAIN sync_items : C4_Row(p)

\* an analysed plan holding a conflict beside a local-only file
C4_Witness ==
    /\ syncOp.op = "analyze"
    /\ NotesMd \in DOMAIN sync_items /\ sync_items[NotesMd].status = CONFLICT
    /\ GitConfig \in DOMAIN sync_items /\ sync_items[GitConfig].status = NEW_LOCAL

\* C5: processed_items never exceeds total_items.
C5_ProcessedWithinTotal == progress.processed_items <= progress.total_items

\* C6: a failed mark_item_completed leaves both processed counters alone, and
\* processed_items grows only in a successful mark_item_completed of a path of
\* the plan.
C6_OnlySuccessAdvances ==
    [][ /\ (syncOp'.op = "mark" /\ ~syncOp'.success)
            => /\ progress'.processed_items = progress.processed_items
               /\ progress'.bytes_processed = progress.bytes_processed
        /\ progress'.processed_items > progress.processed_items
            => /\ syncOp'.op = "mark"
               /\ syncOp'.success
               /\ syncOp'.path \in DOMAIN sync_items ]_vars

\* a failed mark of a planned item, after another item was processed
C6_Witness ==
    /\ syncOp.op = "mark" /\ ~syncOp.success
    /\ syncOp.path \in DOMAIN sync_items
    /\ sync_items[syncOp.path].status = ERROR
    /\ progress.processed_items = 1
    /\ progress.bytes_processed > 0

\* C7: with the pattern .* the file .git/config never enters the local file
\* universe (notes.md does).
C7_DotGitExcluded == GitConfig \notin DOMAIN local_files

\* C8: after analyze_differences the totals count exactly the items whose
\* operation is not skip.
C8_TotalsCountNonSkip ==
    syncOp.op = "analyze" =>
        LET planned == {p \in DOMAIN sync_items : sync_items[p].operation # SKIP}
        IN /\ progress.total_items = Cardinality(planned)
           /\ progress.bytes_total = SumSizes(sync_items, planned)

\* C13: mark_item_completed for a path that is not in sync_items changes
\* nothing, with success true or false: the items, the progress counters and
\* totals, and the local and remote file maps stay as they were.
C13_AbsentPathNoOp ==
    [][ (syncOp'.op = "mark" /\ syncOp'.path \notin DOMAIN sync_items)
        => /\ sync_items' = sync_items
           /\ progress' = progress
           /\ local_files' = local_files
           /\ remote_files' = remote_files ]_vars

\* a successful mark of a path outside a plan that holds an item
C13_Witness ==
    /\ syncOp.op = "mark" /\ syncOp.success
    /\ syncOp.path \notin DOMAIN sync_items
    /\ sync_items # EmptyItems
    /\ progress.total_items > 0

\* C20: a successful mark_item_completed of a path in sync_items leaves that
\* item up-to-date with operation skip, adds 1 to processed_items and the
\* item's size (the local size when it has a local record, the remote size
\* otherwise) to bytes_processed, and changes no other item and no total.
C20_SuccessfulMark ==
    [][ (syncOp'.op = "mark" /\ syncOp'.success /\ syncOp'.path \in DOMAIN sync_items)
        => LET p == syncOp'.path
               size == IF sync_items[p].local_info # NoInfo
                       THEN sync_items[p].local_info.size
                       ELSE sync_items[p].remote_info.size
           IN /\ DOMAIN sync_items' = DOMAIN sync_items
              /\ sync_items'[p].status = UP_TO_DATE
              /\ sync_items'[p].operation = SKIP
              /\ sync_items'[p].local_info = sync_items[p].local_info
              /\ sync_items'[p].remote_info = sync_items[p].remote_info
              /\ \A q \in DOMAIN sync_items \ {p} : sync_items'[q] = sync_items[q]
              /\ progress'.processed_items = progress.processed_items + 1
              /\ progress'.bytes_processed = progress.bytes_processed + size
              /\ progress'.total_items = progress.total_items
              /\ progress'.bytes_total = progress.bytes_total ]_vars

\* a successful mark of an item whose local and remote sizes differ, beside
\* another item
C20_Witness ==
    /\ syncOp.op = "mark" /\ syncOp.success
    /\ syncOp.path \in DOMAIN sync_items
    /\ sync_items[syncOp.path].local_info # NoInfo
    /\ sync_items[syncOp.path].remote_info # NoInfo
    /\ sync_items[syncOp.path].local_info.size # sync_items[syncOp.path].remote_info.size
    /\ sync_items[syncOp.path].status = UP_TO_DATE
    /\ Cardinality(DOMAIN sync_items) = 2
    /\ progress.bytes_processed > 0

\* the decision table of section 4.1 for the records an item holds
C21_Table(l, r) ==
    IF l # NoInfo /\ r # NoInfo THEN
        IF l.checksum = r.checksum THEN <<UP_TO_DATE, SKIP>>
        ELSE IF l.modified_time > r.modified_time THEN <<MODIFIED_LOCAL, UPLOAD>>
        ELSE IF l.modified_time < r.modified_time THEN <<MODIFIED_REMOTE, DOWNLOAD>>
        ELSE <<CONFLICT, SKIP>>
    ELSE IF l # NoInfo THEN <<NEW_LOCAL, UPLOAD>>
    ELSE <<NEW_REMOTE, DOWNLOAD>>

\* C21 as stated: every item has a local or a remote record, and its
\* (status, operation) pair is the decision-table value of its records, or
\* (up-to-date, skip), or (error, the decision-table operation).
C21_PairDerivedOrMarked ==
    \A p \in DOMAIN sync_items :
        LET item == sync_items[p]
            table == C21_Table(item.local_info, item.remote_info)
            pair == <<item.status, item.operation>>
        IN /\ item.local_info # NoInfo \/ item.remote_info # NoInfo
           /\ \/ pair = table
              \/ pair = <<UP_TO_DATE, SKIP>>
              \/ pair = <<ERROR, table[2]>>

\* C21 amended: every item has a local or a remote record, and its (status,
\* operation) pair is the decision-table value of its records, or (up-to-date,
\* skip) after a successful mark, or, after a failed mark, error with the
\* operation the item had before that mark: the decision-table operation, or
\* skip when an earlier mark of the item had succeeded.
C21_PairDerivedOrMarkedAmended ==
    \A p \in DOMAIN sync_items :
        LET item == sync_items[p]
            table == C21_Table(item.local_info, item.remote_info)
            pair == <<item.status, item.operation>>
        IN /\ item.local_info # NoInfo \/ item.remote_info # NoInfo
           /\ \/ pair = table
              \/ pair = <<UP_TO_DATE, SKIP>>
              \/ pair = <<ERROR, table[2]>>
              \/ pair = <<ERROR, SKIP>>

\* a failed mark of an item that an earlier mark had made up-to-date: its
\* records call for an upload, and it is left as (error, skip)
C21_Witness ==
    /\ syncOp.op = "mark" /\ ~syncOp.success
    /\ syncOp.path \in DOMAIN sync_items
    /\ sync_items[syncOp.path].status = ERROR
    /\ sync_items[syncOp.path].operation = SKIP
    /\ C21_Table(sync_items[syncOp.path].local_info,
                 sync_items[syncOp.path].remote_info)[2] = UPLOAD
    /\ progress.processed_items = 1

\* C22: after analyze_differences, a path whose local record has the empty
\* checksum of a failed computation and that also has a remote record is
\* never up-to-date: it is modified-local, modified-remote or conflict,
\* whatever checksum the remote listing gave (none included).
C22_FailedChecksumSurfaces ==
    syncOp.op = "analyze" =>
        \A p \in DOMAIN local_files \cap DOMAIN remote_files :
            local_files[p].checksum = ""
                => /\ p \in DOMAIN sync_items
                   /\ sync_items[p].status \in {MODIFIED_LOCAL, MODIFIED_REMOTE, CONFLICT}

\* C28 as stated: in no step taken while is_syncing is true (from start_sync
\* to the next finish_sync) does processed_items or bytes_processed decrease.
C28_ProcessedNeverDecreases ==
    [][ (is_syncing /\ is_syncing')
        => /\ progress'.processed_items >= progress.processed_items
           /\ progress'.bytes_processed >= progress.bytes_processed ]_vars

\* C28 amended: while is_syncing is true, processed_items and bytes_processed
\* decrease in no step of scan, ingest, mark_item_completed or finish_sync;
\* analyze_differences and start_sync set both to 0.
C28_ProcessedDecreasesOnlyByReset ==
    [][ is_syncing
        => IF syncOp'.op \in {"analyze", "start"}
           THEN /\ progress'.processed_items = 0
                /\ progress'.bytes_processed = 0
           ELSE /\ progress'.processed_items >= progress.processed_items
                /\ progress'.bytes_processed >= progress.bytes_processed ]_vars

\* during a sync run, a second successful mark, of a smaller item than the
\* first
C28_Witness ==
    /\ is_syncing
    /\ syncOp.op = "mark" /\ syncOp.success
    /\ syncOp.path \in DOMAIN sync_items
    /\ progress.processed_items = 2
    /\ progress.bytes_processed > 2 * ItemSize(sync_items[syncOp.path])

\* C29: the errors count of get_sync_summary is the number of items whose
\* status is error.
C29_ErrorsCounted ==
    get_sync_summary(sync_items).errors
        = Cardinality({p \in DOMAIN sync_items : sync_items[p].status = ERROR})

\* C30: no item ever has status unknown, deleted-local or deleted-remote, nor
\* operation delete-local, delete-remote or convert-to-pdf.
C30_UnusedValuesNeverAppear ==
    \A p \in DOMAIN sync_items :
        /\ sync_items[p].status \notin {UNKNOWN, DELETED_LOCAL, DELETED_REMOTE}
        /\ sync_items[p].operation \notin {DELETE_LOCAL, DELETE_REMOTE, CONVERT_PDF}

\* a plan that holds an item in error beside an up-to-date one that a mark
\* made so, during a sync run
C30_Witness ==
    /\ is_syncing
    /\ syncOp.op = "mark"
    /\ \E p \in DOMAIN sync_items : sync_items[p].status = ERROR
    /\ \E p \in DOMAIN sync_items :
          /\ sync_items[p].status = UP_TO_DATE
          /\ sync_items[p].local_info # NoInfo
          /\ sync_items[p].remote_info = NoInfo
    /\ progress.processed_items = 1

-----------------------------------------------------------------------------
(* Claims about a sync run, checked under RunSpec *)

\* C12: when every planned item of a run was marked once, each succeeded item
\* is up-to-date with operation skip, each failed item has status error and
\* holds the message given, and get_items_by_operation(upload) and
\* get_items_by_operation(download) return exactly the planned items that did
\* not succeed.
C12_PartialFailureRerun ==
    (\A p \in DOMAIN outcome : outcome[p] # "pending")
        => /\ \A p \in DOMAIN outcome :
                /\ p \in DOMAIN sync_items
                /\ outcome[p] = "ok"
                    => /\ sync_items[p].status = UP_TO_DATE
                       /\ sync_items[p].operation = SKIP
                /\ outcome[p] # "ok"
                    => /\ sync_items[p].status = ERROR
                       /\ sync_items[p].error_message = outcome[p]
           /\ get_items_by_operation(sync_items, UPLOAD)
                \cup get_items_by_operation(sync_items, DOWNLOAD)
              = {p \in DOMAIN outcome : outcome[p] # "ok"}

\* a finished run of two planned items, one succeeded and one failed with a
\* message
C12_Witness ==
    /\ ~is_syncing
    /\ Cardinality(DOMAIN outcome) = 2
    /\ \E p \in DOMAIN outcome : outcome[p] = "ok"
    /\ \E p \in DOMAIN outcome : outcome[p] = "transfer failed"
    /\ progress.processed_items = 1

-----------------------------------------------------------------------------
(* Claims about add_with_metadata_if_new, checked under AddSpec *)

\* C1: idempotent add. When add_with_metadata_if_new is called twice in a row
\* with the same title and file, and no device step of either call fails, both
\* calls return the same UUID and the create workflow runs in at most one of
\* them.
C1_IdempotentAdd ==
    [][ ( /\ call.op = "add_if_new" /\ call'.op = "add_if_new"
          /\ call'.title = call.title /\ call'.file = call.file
          /\ call.clean /\ call'.clean )
        => /\ call'.result = call.result
           /\ ~(call.created /\ call'.created) ]_vars

\* the documents of the device: the UUIDs with payload, .metadata and .content
Documents ==
    (DOMAIN dev.payload \cap DOMAIN dev.metadata) \cap DOMAIN dev.content

\* C2: after any sequence of add_with_metadata_if_new calls, whichever device
\* steps failed, no two documents of the device have the same visible title.
C2_OneDocumentPerTitle ==
    \A u \in Documents, v \in Documents :
        u # v => VisibleName(dev.metadata[u]) # VisibleName(dev.metadata[v])

-----------------------------------------------------------------------------
(* Claims about hash_from_title, checked under FindSpec *)

\* the stored documents whose visible title contains the query, case ignored
TitleMatches(query) ==
    {u \in DOMAIN dev.metadata :
        \E i \in 1..(Len(VisibleName(dev.metadata[u])) - Len(query) + 1) :
            \A j \in 1..Len(query) :
                Lower(VisibleName(dev.metadata[u])[i + j - 1]) = Lower(query[j])}

\* C9: a search for a non-empty title whose command ran returns a UUID exactly
\* when some stored document's visible title contains the query ignoring
\* case, and the UUID it returns is the UUID of such a document.
C9_MatchesTitlesOnly ==
    (call.op = "find" /\ call.clean /\ call.title # <<>>)
        => /\ call.result # NoUuid <=> TitleMatches(call.title) # {}
           /\ call.result # NoUuid => call.result \in TitleMatches(call.title)

-----------------------------------------------------------------------------
(* Claims about the adapter, checked under Spec *)

\* C10: when delete_document returns success no payload, .metadata or .content
\* of that UUID is left on the device, and a list_all_documents that follows
\* the delete returns no entry with that UUID.
C10_DeleteRemovesDocument ==
    /\ (call.op = "delete" /\ call.ok)
            => /\ call.uuid \notin DOMAIN dev.payload
               /\ call.uuid \notin DOMAIN dev.metadata
               /\ call.uuid \notin DOMAIN dev.content
    /\ (call.op = "list" /\ prior # NoPrior) => prior.uuid \notin call.listed

\* a listing that ran right after the successful delete of a listed document
\* and still returns another document
C10_Witness ==
    /\ call.op = "list" /\ call.clean
    /\ prior.existed
    /\ call.listed # {}

-----------------------------------------------------------------------------
(* Claims about creates, renames and deletes, checked under EditSpec *)

\* the artifacts of a UUID that are on the device
Artifacts(u) ==
    {kind \in {"payload", "metadata", "content"} : u \in DOMAIN dev[kind]}

\* C11: a create returns a UUID only when upload, .metadata write and
\* .content write all succeeded, and then all three artifacts are there; when
\* one of them fails it returns no UUID, makes no later step, and the
\* artifacts written before stay on the device under the generated UUID.
C11_CreateAllOrAbort ==
    call.op = "create" =>
        /\ call.result # NoUuid
            => /\ call.failing \in {"none", "restart"}
               /\ call.result = call.uuid
               /\ Artifacts(call.uuid) = {"payload", "metadata", "content"}
        /\ call.failing = "upload"
            => /\ call.result = NoUuid
               /\ call.log = <<"upload">>
               /\ Artifacts(call.uuid) = {}
        /\ call.failing = "metadata"
            => /\ call.result = NoUuid
               /\ call.log = <<"upload", "metadata">>
               /\ Artifacts(call.uuid) = {"payload"}
        /\ call.failing = "content"
            => /\ call.result = NoUuid
               /\ call.log = <<"upload", "metadata", "content">>
               /\ Artifacts(call.uuid) = {"payload", "metadata"}

\* a create whose .content write failed, beside a complete document
C11_Witness ==
    /\ call.op = "create" /\ call.failing = "content"
    /\ Artifacts(call.uuid) = {"payload", "metadata"}
    /\ \E v \in UUIDs : Artifacts(v) = {"payload", "metadata", "content"}

\* C16: a rename that reports success leaves the parent and type of that
\* document's metadata, every .content, every payload and the .metadata of
\* every other document as they were; a rename whose read or parse of the
\* current metadata fails reports failure and leaves the device as it was.
C16_RenameFrame ==
    [][ call'.op = "rename"
        => /\ call'.ok
                => /\ call'.uuid \in DOMAIN dev.metadata
                   /\ dev'.payload = dev.payload
                   /\ dev'.content = dev.content
                   /\ DOMAIN dev'.metadata = DOMAIN dev.metadata
                   /\ \A v \in DOMAIN dev.metadata \ {call'.uuid} :
                        dev'.metadata[v] = dev.metadata[v]
                   /\ ParsedOf[dev'.metadata[call'.uuid]].parent
                        = ParsedOf[dev.metadata[call'.uuid]].parent
                   /\ ParsedOf[dev'.metadata[call'.uuid]].type
                        = ParsedOf[dev.metadata[call'.uuid]].type
           /\ call'.failing \in {"read", "parse"}
                => /\ ~call'.ok
                   /\ dev' = dev ]_vars

\* a successful rename, to a title given with a blank before it, of a
\* complete document beside another document
C16_Witness ==
    /\ call.op = "rename" /\ call.ok
    /\ call.title = <<" ", "x">>
    /\ VisibleName(dev.metadata[call.uuid]) = <<"x">>
    /\ Artifacts(call.uuid) = {"payload", "metadata", "content"}
    /\ \E v \in DOMAIN dev.metadata : v # call.uuid

\* C17: a create, delete or rename that reports success made the index
\* reload once, as its last device step; one that reports failure made no
\* reload.
C17_ReloadLast ==
    call.op \in {"create", "delete", "rename"} =>
        /\ call.ok
            => /\ call.log # <<>>
               /\ call.log[Len(call.log)] = "restart"
               /\ \A i \in 1..(Len(call.log) - 1) : call.log[i] # "restart"
        /\ ~call.ok
            => \A i \in 1..Len(call.log) : call.log[i] # "restart"

\* a successful create whose reload, made after the three writes, failed
C17_Witness ==
    /\ call.op = "create" /\ call.ok
    /\ call.failing = "restart"
    /\ call.log = <<"upload", "metadata", "content", "restart">>

-----------------------------------------------------------------------------
(* Claims about searches, checked under FindSpec and Spec *)

\* C18: when add_pdf_with_metadata(file, T) has returned a UUID, a
\* hash_from_title(T) made right after it, whose search command runs, returns
\* that UUID.
C18_FindAfterAdd ==
    [][ ( /\ call.op = "create" /\ call.result # NoUuid
          /\ call'.op = "find" /\ call'.title = call.title /\ call'.clean )
        => call'.result = call.result ]_vars

-----------------------------------------------------------------------------
(* Claims about failures of the transport, checked under FaultSpec *)

C15_UninitializedRaises ==
    (call.op # "init" /\ call.network = "uninitialized" /\ call.log # <<>>)
        => call.raised

-----------------------------------------------------------------------------
(* Claims about list_all_documents, checked under ListSpec *)

\* C23: when the listing command succeeds, list_all_documents returns a
\* descriptor for exactly the UUIDs whose .metadata could be read and is
\* well-formed (a JSON object): none for an unreadable or malformed one, and
\* one for every other document, whatever else is on the device.
C23_BadEntriesSkipped ==
    (call.op = "list" /\ call.failing = "none")
        => call.listed = {u \in DOMAIN dev.metadata :
                             /\ u \in call.readable
                             /\ JsonKind(dev.metadata[u]) = "object"}

-----------------------------------------------------------------------------
(* Claims about the life of a document, checked under FaultSpec *)

\* C24: per UUID the device only moves absent -> created -> renamed* ->
\* deleted. In every step and for every UUID: artifacts appear for a UUID only
\* in a create that was given it by uuid4(), never returned before; a UUID
\* that was given out and has no artifact (deleted, or never written) has none
\* afterwards; a successful delete of a present UUID leaves it absent; and
\* rename_document on a UUID with no artifact returns False and leaves the
\* device as it was.
C24_Lifecycle ==
    [][ \A u \in UUIDs :
          /\ (Artifacts(u) = {} /\ Artifacts(u)' # {})
                => /\ call'.op \in {"create", "add_if_new"}
                   /\ call'.created
                   /\ u \notin used /\ u \in used'
          /\ (u \in used /\ Artifacts(u) = {}) => Artifacts(u)' = {}
          /\ (call'.op = "delete" /\ call'.ok /\ call'.uuid = u) => Artifacts(u)' = {}
          /\ (call'.op = "rename" /\ call'.uuid = u /\ Artifacts(u) = {})
                => /\ ~call'.ok
                   /\ dev' = dev ]_vars

\* rename_document on a UUID that was given out and has no artifact any more
\* (deleted, or its upload failed): the read of its .metadata fails, while
\* another document is on the device
C24_Witness ==
    /\ call.op = "rename" /\ ~call.ok
    /\ call.uuid \in used
    /\ Artifacts(call.uuid) = {}
    /\ call.failing = "read"
    /\ call.network = "connected"
    /\ \E v \in UUIDs : Artifacts(v) = {"payload", "metadata", "content"}

-----------------------------------------------------------------------------
(* Claims about NetworkService.connect, checked under ConnSpec *)

\* C25: every connect() returns: the disconnect() it calls while it holds the
\* connection lock never blocks, so no thread is ever waiting in disconnect()
\* for a lock that it holds itself.
C25_ConnectReturns ==
    \A t \in Callers : ~(caller[t].pc = "disconnect" /\ _connection_lock = t)

-----------------------------------------------------------------------------
(* Claims about concurrent upload workers, checked under UploadSpec *)

\* C27: when two workers have added the same title to a store that held no
\* document, whatever the order of their searches and creates, at most one
\* document with that title exists and both returned the same UUID.
C27_ConcurrentAddOnce ==
    \A v, w \in Workers :
        (v # w /\ worker[v].pc = "done" /\ worker[w].pc = "done"
             /\ worker[v].title = worker[w].title)
            => /\ worker[v].result = worker[w].result
               /\ Cardinality({u \in DOMAIN dev.metadata :
                                  VisibleName(dev.metadata[u]) = worker[w].title}) <= 1

-----------------------------------------------------------------------------
(* Claims about retried adds, checked under AddSpec *)

\* C26: whenever add_with_metadata_if_new returns a UUID, the payload, the
\* .metadata and the .content of that UUID are on the device, also when
\* earlier calls were aborted by a failing step.
C26_ReturnedUuidComplete ==
    (call.op = "add_if_new" /\ call.result # NoUuid)
        => Artifacts(call.result) = {"payload", "metadata", "content"}

====
